---------------------------- MODULE Spec2Model ----------------------------
(***************************************************************************)
(* Model of the low-power IR remote firmware (remote.c): the two sleep     *)
(* primitives and their interrupt handlers, the debounce loop of main,     *)
(* the button-to-command lookup and the Sony 12-bit transmitter.           *)
(***************************************************************************)
EXTENDS Integers, Sequences, FiniteSets, TLC

(* ------------------------------ bounds --------------------------------- *)

\* heldFrames counts frames sent with the input lines unchanged; it
\* saturates here.
MaxFrames == 3

\* sinceMark accumulates carrier-off sleep time (us) since the last mark; it
\* saturates here.
GapCap == 46000

\* heldSamples counts reads of the input lines since they last changed; it
\* saturates here.
MaxSamples == 3

(* --------------------------- program constants ------------------------- *)

PORTB_BUTTON_PIN_MASK == 30
PORTB_OUTPUT_PIN_MASK == 1

IR_CARRIER_FREQ == 40000
HEADER_BIT_DURATION == 2400
ONE_BIT_ON_DURATION == 1200
\* The zero mark given the duration of the one mark.
ZERO_BIT_ON_DURATION_asOne == ONE_BIT_ON_DURATION
ZERO_BIT_ON_DURATION == 600
BIT_OFF_DURATION == 600
POST_DELAY_DURATION == 45
DEBOUNCE_DURATION == 10

\* Nominal CPU clock the delay macros are documented for.
F_CPU == 1000000

\* Number of data bits of a frame (the bound of the transmit loop).
NUM_BITS == 12

(* ------------------------------ bit helpers ---------------------------- *)

Min(a, b) == IF a < b THEN a ELSE b

Bit(x, k) == (x \div (2 ^ k)) % 2

\* 8-bit bitwise operators of C on uint8_t values.
And(x, y) == LET b(k) == (2 ^ k) * (Bit(x, k) * Bit(y, k))
             IN  b(0) + b(1) + b(2) + b(3) + b(4) + b(5) + b(6) + b(7)

Xor(x, y) == LET b(k) == (2 ^ k) * ((Bit(x, k) + Bit(y, k)) % 2)
             IN  b(0) + b(1) + b(2) + b(3) + b(4) + b(5) + b(6) + b(7)

Not8(x) == 255 - x

\* The test of line 174 inverted.
LowBit_inverted(c) == 1 - (c % 2)

\* code & 1 (line 174)
LowBit(c) == c % 2

\* code >>= 1 on a uint16_t (line 181)
\* The shift left out.
ShiftRight_keep(c) == c

ShiftRight(c) == c \div 2

(* ------------------------------ command table -------------------------- *)

\* A|(1<<7) for the 7-bit commands of the table, none of which has bit 7 set.
WithAddress1(cmd) == cmd + 2 ^ 7

\* The table with the mute chord entered as a single volume button.
command_defs_dup ==
  << [pinmask |-> 2,  code |-> WithAddress1(21)],
     [pinmask |-> 4,  code |-> WithAddress1(18)],
     [pinmask |-> 8,  code |-> WithAddress1(19)],
     [pinmask |-> 4,  code |-> WithAddress1(20)],
     [pinmask |-> 16, code |-> WithAddress1(37)] >>

command_defs ==
  << [pinmask |-> 2,  code |-> WithAddress1(21)],
     [pinmask |-> 4,  code |-> WithAddress1(18)],
     [pinmask |-> 8,  code |-> WithAddress1(19)],
     [pinmask |-> 12, code |-> WithAddress1(20)],
     [pinmask |-> 16, code |-> WithAddress1(37)] >>

NUM_COMMANDS == Len(command_defs)


\* transmit_code_for_buttons, lines 201-207: index of the first table entry
\* whose pinmask equals the button state, 0 when the scan ends without one.
RECURSIVE ScanFrom(_, _)
ScanFrom(k, b) ==
  IF k > NUM_COMMANDS THEN 0
  ELSE IF b = command_defs[k].pinmask THEN k
  ELSE ScanFrom(k + 1, b)

\* The scan stopping one entry short of the table.
FindCommand_skipLast(b) ==
  LET k == ScanFrom(1, b) IN IF k = NUM_COMMANDS THEN 0 ELSE k

\* The scan matching an entry whose pinmask is contained in the button state.
RECURSIVE ScanSubsetFrom(_, _)
ScanSubsetFrom(k, b) ==
  IF k > NUM_COMMANDS THEN 0
  ELSE IF And(b, command_defs[k].pinmask) = command_defs[k].pinmask THEN k
  ELSE ScanSubsetFrom(k + 1, b)

FindCommand_subset(b) == ScanSubsetFrom(1, b)

FindCommand(b) == ScanFrom(1, b)

(* ------------------------------ input lines ---------------------------- *)

\* Button combinations the environment presses (active-high masks within
\* PORTB_BUTTON_PIN_MASK): none, each single mapped button, the mute chord,
\* and two unmapped chords.
PressedSets == {0, 2, 4, 8, 12, 16, 6, 14}

\* Levels of the input lines outside the button mask.
OtherBits == {0, 32}

\* Raw PINB reading: buttons are active-low with pull-ups.
Raw(pressed, other) == (PORTB_BUTTON_PIN_MASK - pressed) + other

RawValues == { Raw(p, o) : p \in PressedSets, o \in OtherBits }

\* (~input) & PORTB_BUTTON_PIN_MASK (line 253)
Pressed(in) == And(Not8(in), PORTB_BUTTON_PIN_MASK)

(* -------------------------------- state -------------------------------- *)

VARIABLES
  pc,         \* position of the single thread of control
  ret,        \* where the running idle_sleep returns to
  retaddr,    \* where transmit_sony_12bit_code's caller continues
  hw,         \* hardware registers touched by the program
  pinb,       \* level of the input lines (PINB), driven by the environment
  input,      \* main: input
  last_input, \* main: last_input
  buttons,    \* transmit_code_for_buttons: buttons
  code,       \* transmit_sony_12bit_code: code (shifted as bits go out)
  i,          \* transmit_sony_12bit_code: i
  dur,        \* microseconds requested of the running idle_sleep
  \* history
  txcode,     \* argument of the latest transmit_sony_12bit_code call
  wave,       \* <<carrier on?, microseconds>> of each sleep of that call
  sent,       \* codes passed to transmit_sony_12bit_code since the last read
  path,       \* branch the main loop took on the latest sample
  prevSample, \* the sample read before the latest one
  elapsed,    \* sleeps completed since the latest branch: on/off us, count
  sinceMark,  \* carrier-off sleep time since the last mark, -1 before any
  heldFrames, \* frames started since the input lines last changed
  heldSamples \* reads of PINB since the input lines last changed

prog == <<pc, ret, retaddr, input, last_input, buttons, code, i, dur>>
hist == <<txcode, wave, sent, path, prevSample, elapsed, sinceMark, heldFrames,
          heldSamples>>
vars == <<prog, hw, pinb, hist>>

ir_enabled == {"COM0A0", "WGM01"}

\* The output line carries the carrier: Timer0 powered, toggling OC0A, and
\* PB0 configured as output.
CarrierOn(h) ==
  /\ ~h.PRTIM0
  /\ h.TCCR0A = ir_enabled
  /\ And(h.DDRB, PORTB_OUTPUT_PIN_MASK) # 0

NoElapsed == [on |-> 0, off |-> 0, n |-> 0]

\* Registers after main's setup, lines 218-233.
HwAfterSetup ==
  [ TCCR0A |-> ir_enabled,
    OCR0A  |-> F_CPU \div (2 * IR_CARRIER_FREQ),
    PRTIM0 |-> TRUE,
    PRTIM1 |-> TRUE,
    DDRB   |-> 0,
    PORTB  |-> PORTB_BUTTON_PIN_MASK,
    PCMSK  |-> PORTB_BUTTON_PIN_MASK,
    GIMSK  |-> {},
    PCIF   |-> FALSE,
    TIMSK  |-> {},
    TCCR1  |-> {},
    OCR1A  |-> 0,
    SM     |-> "IDLE",
    I      |-> FALSE ]

NoHistory ==
  /\ txcode = 0
  /\ wave = <<>>
  /\ sent = <<>>
  /\ path = "none"
  /\ elapsed = NoElapsed
  /\ sinceMark = -1
  /\ heldFrames = 0
  /\ heldSamples = 0

\* main up to the top of the outer loop (line 238), all buttons released.
Init ==
  /\ pc = "power_down"
  /\ ret = "none"
  /\ retaddr = "none"
  /\ hw = HwAfterSetup
  /\ pinb \in { Raw(0, o) : o \in OtherBits }
  /\ input = 0
  /\ last_input = 0
  /\ buttons = 0
  /\ code = 0
  /\ i = 0
  /\ dur = 0
  /\ prevSample = 0
  /\ NoHistory

(* ---------------------------- sleep primitives ------------------------- *)

\* idle_sleep_us / idle_sleep_ms argument arithmetic (lines 134-147); the
\* ticks parameter of idle_sleep is a uint8_t. F_CPU is a multiple of 1000,
\* so the quotient (F_CPU*x)/(k*1000) is computed as ((F_CPU/1000)*x)/k,
\* which keeps the product within 32-bit signed integers.
TicksUs(us) == (((F_CPU \div 1000) * us) \div (16 * 1000)) % 256
\* The millisecond count divided for the 1/16 prescaler.
TicksMs_prescaler16(ms) == (((F_CPU \div 1000) * ms) \div 16) % 256
TicksMs(ms) == (((F_CPU \div 1000) * ms) \div 4096) % 256

\* idle_sleep without the sei of line 110.
idle_sleep_noSei(h, ticks, prescaler) ==
  [h EXCEPT !.SM = "IDLE", !.PRTIM1 = FALSE, !.OCR1A = ticks,
            !.TIMSK = {"OCIE1A"}, !.TCCR1 = prescaler]

\* idle_sleep up to and including sleep_cpu (lines 105-111).
idle_sleep(h, ticks, prescaler) ==
  [h EXCEPT !.SM = "IDLE", !.PRTIM1 = FALSE, !.OCR1A = ticks,
            !.TIMSK = {"OCIE1A"}, !.TCCR1 = prescaler, !.I = TRUE]

idle_sleep_us(h, us) == idle_sleep(h, TicksUs(us), {"CS12", "CS10"})
idle_sleep_ms(h, ms) == idle_sleep(h, TicksMs(ms), {"CS13", "CS12", "CS10"})

\* The thread is now asleep in idle_sleep and continues at `cont`.
Sleeping(us, cont) ==
  /\ pc' = "idle"
  /\ ret' = cont
  /\ dur' = us

\* power_down_and_wait_for_pin_change up to sleep_cpu (lines 74-83).
\* The deep sleep entered after discarding a pending pin-change flag.
PowerDown_clearFlag ==
  /\ pc = "power_down"
  /\ hw' = [hw EXCEPT !.PORTB = And(hw.PORTB, Not8(PORTB_OUTPUT_PIN_MASK)),
                      !.DDRB = 0, !.SM = "PWR_DOWN",
                      !.GIMSK = {"PCIE"}, !.PCIF = FALSE, !.I = TRUE]
  /\ pc' = "pwr_down"
  /\ UNCHANGED <<ret, retaddr, input, last_input, buttons, code, i, dur>>
  /\ UNCHANGED <<pinb, hist>>

PowerDown ==
  /\ pc = "power_down"
  /\ hw' = [hw EXCEPT !.PORTB = And(hw.PORTB, Not8(PORTB_OUTPUT_PIN_MASK)),
                      !.DDRB = 0, !.SM = "PWR_DOWN",
                      !.GIMSK = {"PCIE"}, !.I = TRUE]
  /\ pc' = "pwr_down"
  /\ UNCHANGED <<ret, retaddr, input, last_input, buttons, code, i, dur>>
  /\ UNCHANGED <<pinb, hist>>

\* The pin-change handler returning with reti: the I flag is set again.
PCINT0_reti ==
  /\ pc = "pwr_down"
  /\ hw.PCIF /\ "PCIE" \in hw.GIMSK /\ hw.I
  /\ hw' = [hw EXCEPT !.GIMSK = {}, !.PCIF = FALSE, !.I = TRUE]
  /\ pc' = "initial_debounce"
  /\ elapsed' = NoElapsed
  /\ path' = "none"
  /\ UNCHANGED <<ret, retaddr, input, last_input, buttons, code, i, dur>>
  /\ UNCHANGED <<pinb, txcode, wave, sent, prevSample, sinceMark, heldFrames,
                 heldSamples>>

\* The pin-change handler without line 93: PCIE stays set.
PCINT0_keepEnabled ==
  /\ pc = "pwr_down"
  /\ hw.PCIF /\ "PCIE" \in hw.GIMSK /\ hw.I
  /\ hw' = [hw EXCEPT !.PCIF = FALSE, !.I = FALSE]
  /\ pc' = "initial_debounce"
  /\ elapsed' = NoElapsed
  /\ path' = "none"
  /\ UNCHANGED <<ret, retaddr, input, last_input, buttons, code, i, dur>>
  /\ UNCHANGED <<pinb, txcode, wave, sent, prevSample, sinceMark, heldFrames,
                 heldSamples>>

\* ISR(PCINT0_vect), lines 90-95: ends the deep sleep; the handler returns
\* with ret, so the I flag the hardware cleared on entry stays clear.
PCINT0 ==
  /\ pc = "pwr_down"
  /\ hw.PCIF /\ "PCIE" \in hw.GIMSK /\ hw.I
  /\ hw' = [hw EXCEPT !.GIMSK = {}, !.PCIF = FALSE, !.I = FALSE]
  /\ pc' = "initial_debounce"
  /\ elapsed' = NoElapsed
  /\ path' = "none"
  /\ UNCHANGED <<ret, retaddr, input, last_input, buttons, code, i, dur>>
  /\ UNCHANGED <<pinb, txcode, wave, sent, prevSample, sinceMark, heldFrames,
                 heldSamples>>

\* ISR(TIMER1_COMPA_vect), lines 119-125, then the rest of idle_sleep
\* (line 112): ends the idle sleep.
TIMER1_COMPA ==
  /\ pc = "idle"
  /\ "OCIE1A" \in hw.TIMSK /\ hw.I
  /\ hw' = [hw EXCEPT !.TIMSK = {}, !.TCCR1 = {}, !.I = FALSE, !.PRTIM1 = TRUE]
  /\ pc' = ret
  /\ elapsed' = IF CarrierOn(hw)
                  THEN [elapsed EXCEPT !.on = @ + dur, !.n = @ + 1]
                  ELSE [elapsed EXCEPT !.off = @ + dur, !.n = @ + 1]
  /\ sinceMark' = IF CarrierOn(hw) THEN 0
                  ELSE IF sinceMark = -1 THEN -1
                  ELSE Min(sinceMark + dur, GapCap)
  /\ UNCHANGED <<ret, retaddr, input, last_input, buttons, code, i, dur>>
  /\ UNCHANGED <<pinb, txcode, wave, sent, path, prevSample, heldFrames,
                 heldSamples>>

(* -------------------------------- main --------------------------------- *)

\* line 243
InitialDebounce ==
  /\ pc = "initial_debounce"
  /\ hw' = idle_sleep_ms(hw, DEBOUNCE_DURATION)
  /\ Sleeping(DEBOUNCE_DURATION * 1000, "read_buttons")
  /\ UNCHANGED <<retaddr, input, last_input, buttons, code, i>>
  /\ UNCHANGED <<pinb, hist>>

\* lines 246-247
ReadButtons ==
  /\ pc = "read_buttons"
  /\ input' = pinb
  /\ last_input' = pinb
  /\ pc' = "process"
  /\ path' = "first"
  /\ prevSample' = pinb
  /\ UNCHANGED <<ret, retaddr, buttons, code, i, dur>>
  /\ heldSamples' = Min(heldSamples + 1, MaxSamples)
  /\ UNCHANGED <<hw, pinb, txcode, wave, sent, elapsed, sinceMark, heldFrames>>

\* The break of line 256 taken on an empty mask without the stability test
\* of line 252.
StableReleased_untested ==
  /\ pc = "process"
  /\ Pressed(input) = 0
  /\ pc' = "power_down"
  /\ path' = "released"
  /\ elapsed' = NoElapsed
  /\ UNCHANGED <<ret, retaddr, input, last_input, buttons, code, i, dur>>
  /\ UNCHANGED <<hw, pinb, txcode, wave, sent, prevSample, sinceMark, heldFrames,
                 heldSamples>>

\* lines 252-256: stable and nothing pressed, leave the processing loop.
StableReleased ==
  /\ pc = "process"
  /\ input = last_input
  /\ Pressed(input) = 0
  /\ pc' = "power_down"
  /\ path' = "released"
  /\ elapsed' = NoElapsed
  /\ UNCHANGED <<ret, retaddr, input, last_input, buttons, code, i, dur>>
  /\ UNCHANGED <<hw, pinb, txcode, wave, sent, prevSample, sinceMark, heldFrames,
                 heldSamples>>

\* lines 252-259: stable and something pressed, call
\* transmit_code_for_buttons.
StablePressed ==
  /\ pc = "process"
  /\ input = last_input
  /\ Pressed(input) # 0
  /\ buttons' = Pressed(input)
  /\ pc' = "lookup"
  /\ path' = "pressed"
  /\ elapsed' = NoElapsed
  /\ UNCHANGED <<ret, retaddr, input, last_input, code, i, dur>>
  /\ UNCHANGED <<hw, pinb, txcode, wave, sent, prevSample, sinceMark, heldFrames,
                 heldSamples>>

\* The unstable branch without line 264: the baseline is not replaced.
Unstable_keepBaseline ==
  /\ pc = "process"
  /\ input # last_input
  /\ hw' = idle_sleep_ms(hw, DEBOUNCE_DURATION)
  /\ Sleeping(DEBOUNCE_DURATION * 1000, "resample")
  /\ path' = "unstable"
  /\ elapsed' = NoElapsed
  /\ UNCHANGED <<retaddr, input, last_input, buttons, code, i>>
  /\ UNCHANGED <<pinb, txcode, wave, sent, prevSample, sinceMark, heldFrames,
                 heldSamples>>

\* The unstable branch without line 265: no wait before the re-sample.
Unstable_noWait ==
  /\ pc = "process"
  /\ input # last_input
  /\ last_input' = input
  /\ pc' = "resample"
  /\ path' = "unstable"
  /\ elapsed' = NoElapsed
  /\ UNCHANGED <<ret, retaddr, input, buttons, code, i, dur>>
  /\ UNCHANGED <<hw, pinb, txcode, wave, sent, prevSample, sinceMark,
                 heldFrames,
                 heldSamples>>

\* lines 263-266
\* The stability test made on the pressed masks instead of the raw bytes.
Unstable_masked ==
  /\ pc = "process"
  /\ Pressed(input) # Pressed(last_input)
  /\ last_input' = input
  /\ hw' = idle_sleep_ms(hw, DEBOUNCE_DURATION)
  /\ Sleeping(DEBOUNCE_DURATION * 1000, "resample")
  /\ path' = "unstable"
  /\ elapsed' = NoElapsed
  /\ UNCHANGED <<retaddr, input, buttons, code, i>>
  /\ UNCHANGED <<pinb, txcode, wave, sent, prevSample, sinceMark, heldFrames,
                 heldSamples>>

Unstable ==
  /\ pc = "process"
  /\ input # last_input
  /\ last_input' = input
  /\ hw' = idle_sleep_ms(hw, DEBOUNCE_DURATION)
  /\ Sleeping(DEBOUNCE_DURATION * 1000, "resample")
  /\ path' = "unstable"
  /\ elapsed' = NoElapsed
  /\ UNCHANGED <<retaddr, input, buttons, code, i>>
  /\ UNCHANGED <<pinb, txcode, wave, sent, prevSample, sinceMark, heldFrames,
                 heldSamples>>

\* line 269
\* The end of the processing loop without line 269: PINB is not read again.
Resample_stale ==
  /\ pc = "resample"
  /\ input' = input
  /\ prevSample' = input
  /\ pc' = "process"
  /\ wave' = <<>>
  /\ sent' = <<>>
  /\ txcode' = 0
  /\ UNCHANGED <<ret, retaddr, last_input, buttons, code, i, dur>>
  /\ heldSamples' = Min(heldSamples + 1, MaxSamples)
  /\ UNCHANGED <<hw, pinb, path, elapsed, sinceMark, heldFrames>>

Resample ==
  /\ pc = "resample"
  /\ input' = pinb
  /\ prevSample' = input
  /\ pc' = "process"
  /\ wave' = <<>>
  /\ sent' = <<>>
  /\ txcode' = 0
  /\ UNCHANGED <<ret, retaddr, last_input, buttons, code, i, dur>>
  /\ heldSamples' = Min(heldSamples + 1, MaxSamples)
  /\ UNCHANGED <<hw, pinb, path, elapsed, sinceMark, heldFrames>>


(* ----------------------- transmit_code_for_buttons ---------------------- *)

\* A retry: after the frame the scan starts over instead of returning.
TransmitCodeMatch_retry ==
  /\ pc = "lookup"
  /\ FindCommand(buttons) # 0
  /\ code' = command_defs[FindCommand(buttons)].code
  /\ retaddr' = "lookup"
  /\ pc' = "tx_header_mark"
  /\ path' = "tx"
  /\ UNCHANGED <<ret, input, last_input, buttons, i, dur>>
  /\ UNCHANGED <<hw, pinb, txcode, wave, sent, prevSample, elapsed, sinceMark,
                 heldFrames,
                 heldSamples>>

\* lines 201-205: an entry matches; its code is read and passed to
\* transmit_sony_12bit_code, after which the function returns to line 269.
TransmitCodeMatch ==
  /\ pc = "lookup"
  /\ FindCommand(buttons) # 0
  /\ code' = command_defs[FindCommand(buttons)].code
  /\ retaddr' = "resample"
  /\ pc' = "tx_header_mark"
  /\ path' = "tx"
  /\ UNCHANGED <<ret, input, last_input, buttons, i, dur>>
  /\ UNCHANGED <<hw, pinb, txcode, wave, sent, prevSample, elapsed, sinceMark,
                 heldFrames,
                 heldSamples>>

\* The no-match path without line 209: it returns at once.
TransmitCodeNoMatch_noSleep ==
  /\ pc = "lookup"
  /\ FindCommand(buttons) = 0
  /\ pc' = "resample"
  /\ path' = "unmapped"
  /\ UNCHANGED <<ret, retaddr, input, last_input, buttons, code, i, dur>>
  /\ UNCHANGED <<hw, pinb, txcode, wave, sent, prevSample, elapsed, sinceMark,
                 heldFrames,
                 heldSamples>>

\* lines 207-210: no entry matches; debounce and return to line 269.
TransmitCodeNoMatch ==
  /\ pc = "lookup"
  /\ FindCommand(buttons) = 0
  /\ hw' = idle_sleep_ms(hw, DEBOUNCE_DURATION)
  /\ Sleeping(DEBOUNCE_DURATION * 1000, "resample")
  /\ path' = "unmapped"
  /\ UNCHANGED <<retaddr, input, last_input, buttons, code, i>>
  /\ UNCHANGED <<pinb, txcode, wave, sent, prevSample, elapsed, sinceMark,
                 heldFrames,
                 heldSamples>>

(* ----------------------- transmit_sony_12bit_code ----------------------- *)

\* One sleep of the transmitter: the registers `h` it sleeps with, the
\* requested microseconds, and the continuation.
TxSleep(h, us, cont) ==
  /\ hw' = idle_sleep_us(h, us)
  /\ Sleeping(us, cont)
  /\ wave' = Append(wave, <<CarrierOn(h), us>>)

\* lines 160-166: power Timer0, gate the carrier on, drive PB0, header mark.
TxHeaderMark ==
  /\ pc = "tx_header_mark"
  /\ txcode' = code
  /\ sent' = Append(sent, code)
  /\ heldFrames' = Min(heldFrames + 1, MaxFrames)
  /\ LET h == [hw EXCEPT !.PRTIM0 = FALSE, !.TCCR0A = ir_enabled,
                         !.DDRB = PORTB_OUTPUT_PIN_MASK]
     IN  /\ hw' = idle_sleep_us(h, HEADER_BIT_DURATION)
         /\ Sleeping(HEADER_BIT_DURATION, "tx_header_space")
         /\ wave' = <<  <<CarrierOn(h), HEADER_BIT_DURATION>>  >>
  /\ UNCHANGED <<retaddr, input, last_input, buttons, code, i>>
  /\ UNCHANGED <<pinb, path, prevSample, elapsed, sinceMark, heldSamples>>

\* lines 167-168: carrier off, header space.
TxHeaderSpace ==
  /\ pc = "tx_header_space"
  /\ TxSleep([hw EXCEPT !.TCCR0A = {}], BIT_OFF_DURATION, "tx_loop_init")
  /\ UNCHANGED <<retaddr, input, last_input, buttons, code, i>>
  /\ UNCHANGED <<pinb, txcode, sent, path, prevSample, elapsed, sinceMark,
                 heldFrames,
                 heldSamples>>

\* line 172: i = 0
TxLoopInit ==
  /\ pc = "tx_loop_init"
  /\ i' = 0
  /\ pc' = "tx_loop"
  /\ UNCHANGED <<ret, retaddr, input, last_input, buttons, code, dur>>
  /\ UNCHANGED <<hw, pinb, hist>>

\* lines 172-178: carrier on for the mark of the low bit of code.
TxBitMark ==
  /\ pc = "tx_loop"
  /\ i < NUM_BITS
  /\ TxSleep([hw EXCEPT !.TCCR0A = ir_enabled],
             IF LowBit(code) = 1 THEN ONE_BIT_ON_DURATION
                                 ELSE ZERO_BIT_ON_DURATION,
             "tx_bit_space")
  /\ UNCHANGED <<retaddr, input, last_input, buttons, code, i>>
  /\ UNCHANGED <<pinb, txcode, sent, path, prevSample, elapsed, sinceMark,
                 heldFrames,
                 heldSamples>>

\* lines 179-180: carrier off, bit space.
TxBitSpace ==
  /\ pc = "tx_bit_space"
  /\ TxSleep([hw EXCEPT !.TCCR0A = {}], BIT_OFF_DURATION, "tx_bit_next")
  /\ UNCHANGED <<retaddr, input, last_input, buttons, code, i>>
  /\ UNCHANGED <<pinb, txcode, sent, path, prevSample, elapsed, sinceMark,
                 heldFrames,
                 heldSamples>>

\* lines 181 and 172: code >>= 1; i++
TxBitNext ==
  /\ pc = "tx_bit_next"
  /\ code' = ShiftRight(code)
  /\ i' = i + 1
  /\ pc' = "tx_loop"
  /\ UNCHANGED <<ret, retaddr, input, last_input, buttons, dur>>
  /\ UNCHANGED <<hw, pinb, hist>>

\* The end of the frame without the post-transmission delay of line 187.
TxPostDelay_noDelay ==
  /\ pc = "tx_loop"
  /\ i >= NUM_BITS
  /\ hw' = [hw EXCEPT !.DDRB = 0, !.PRTIM0 = TRUE]
  /\ pc' = retaddr
  /\ UNCHANGED <<ret, retaddr, input, last_input, buttons, code, i, dur>>
  /\ UNCHANGED <<pinb, hist>>

\* The end of the frame without line 185: PB0 stays an output.
TxPostDelay_keepOutput ==
  /\ pc = "tx_loop"
  /\ i >= NUM_BITS
  /\ LET h == [hw EXCEPT !.PRTIM0 = TRUE]
     IN  /\ hw' = idle_sleep_ms(h, POST_DELAY_DURATION)
         /\ Sleeping(POST_DELAY_DURATION * 1000, retaddr)
         /\ wave' = Append(wave, <<CarrierOn(h), POST_DELAY_DURATION * 1000>>)
  /\ UNCHANGED <<retaddr, input, last_input, buttons, code, i>>
  /\ UNCHANGED <<pinb, txcode, sent, path, prevSample, elapsed, sinceMark,
                 heldFrames, heldSamples>>

\* lines 184-188: release PB0, power Timer0 down, post-transmission delay,
\* then return to the caller.
TxPostDelay ==
  /\ pc = "tx_loop"
  /\ i >= NUM_BITS
  /\ LET h == [hw EXCEPT !.DDRB = 0, !.PRTIM0 = TRUE]
     IN  /\ hw' = idle_sleep_ms(h, POST_DELAY_DURATION)
         /\ Sleeping(POST_DELAY_DURATION * 1000, retaddr)
         /\ wave' = Append(wave, <<CarrierOn(h), POST_DELAY_DURATION * 1000>>)
  /\ UNCHANGED <<retaddr, input, last_input, buttons, code, i>>
  /\ UNCHANGED <<pinb, txcode, sent, path, prevSample, elapsed, sinceMark,
                 heldFrames,
                 heldSamples>>

(* ------------------------------ environment ---------------------------- *)

\* The input lines change level. A change on a line enabled in PCMSK latches
\* the pin-change flag.
PinChange ==
  /\ \E v \in RawValues \ {pinb} :
       /\ pinb' = v
       /\ hw' = [hw EXCEPT !.PCIF = @ \/ (And(Xor(pinb, v), hw.PCMSK) # 0)]
  /\ heldFrames' = 0
  /\ heldSamples' = 0
  /\ UNCHANGED prog
  /\ UNCHANGED <<txcode, wave, sent, path, prevSample, elapsed, sinceMark>>

(* ----------------------------- specifications -------------------------- *)

Transmitter ==
  \/ TxHeaderMark
  \/ TxHeaderSpace
  \/ TxLoopInit
  \/ TxBitMark
  \/ TxBitSpace
  \/ TxBitNext
  \/ TxPostDelay

Next ==
  \/ PowerDown
  \/ PCINT0
  \/ TIMER1_COMPA
  \/ InitialDebounce
  \/ ReadButtons
  \/ StableReleased
  \/ StablePressed
  \/ Unstable
  \/ Resample
  \/ TransmitCodeMatch
  \/ TransmitCodeNoMatch
  \/ Transmitter
  \/ PinChange

Spec == Init /\ [][Next]_vars

\* The steps of the processor and its interrupt hardware: every step but a
\* change of the input lines.
CpuStep ==
  \/ PowerDown
  \/ PCINT0
  \/ TIMER1_COMPA
  \/ InitialDebounce
  \/ ReadButtons
  \/ StableReleased
  \/ StablePressed
  \/ Unstable
  \/ Resample
  \/ TransmitCodeMatch
  \/ TransmitCodeNoMatch
  \/ Transmitter

\* The processor keeps executing, the running timer keeps counting, and a
\* pending enabled interrupt is served; the input lines are free to change
\* or not.
SpecLive == Spec /\ WF_vars(CpuStep)

\* transmit_sony_12bit_code on its own: called with any 12-bit code, from the
\* register state main leaves when it calls it.
AllCodes == 0 .. (2 ^ NUM_BITS - 1)

InitTx ==
  /\ pc = "tx_header_mark"
  /\ ret = "none"
  /\ retaddr = "done"
  /\ hw = HwAfterSetup
  /\ pinb = Raw(0, 0)
  /\ input = Raw(0, 0)
  /\ last_input = Raw(0, 0)
  /\ buttons = 0
  /\ code \in AllCodes
  /\ i = 0
  /\ dur = 0
  /\ prevSample = Raw(0, 0)
  /\ NoHistory

NextTx ==
  \/ Transmitter
  \/ TIMER1_COMPA

SpecTx == InitTx /\ [][NextTx]_vars


\* transmit_code_for_buttons on its own: called as main calls it (line 259),
\* with any nonzero pressed-button mask within PORTB_BUTTON_PIN_MASK.
AllButtonMasks == { 2 * k : k \in 1 .. 15 }

InitLookup ==
  /\ pc = "lookup"
  /\ ret = "none"
  /\ retaddr = "none"
  /\ hw = HwAfterSetup
  /\ buttons \in AllButtonMasks
  /\ pinb = Raw(buttons, 0)
  /\ input = Raw(buttons, 0)
  /\ last_input = Raw(buttons, 0)
  /\ code = 0
  /\ i = 0
  /\ dur = 0
  /\ prevSample = Raw(buttons, 0)
  /\ txcode = 0
  /\ wave = <<>>
  /\ sent = <<>>
  /\ path = "pressed"
  /\ elapsed = NoElapsed
  /\ sinceMark = -1
  /\ heldFrames = 0
  /\ heldSamples = 0

NextLookup ==
  \/ TransmitCodeMatch
  \/ TransmitCodeNoMatch
  \/ Transmitter
  \/ TIMER1_COMPA

SpecLookup == InitLookup /\ [][NextLookup]_vars

(* ======================================================================= *)
(*                               properties                                *)
(* ======================================================================= *)

\* transmit_code_for_buttons has returned to line 269.
Returned == pc = "resample" /\ path \in {"tx", "unmapped"}

\* A reference receiver for the Sony 12-bit format. It sees the output line
\* only: consecutive intervals of equal level are one interval.
RECURSIVE Merge(_)
Merge(w) ==
  IF Len(w) <= 1 THEN w
  ELSE LET r == Merge(Tail(w))
       IN  IF w[1][1] = r[1][1]
             THEN << <<w[1][1], w[1][2] + r[1][2]>> >> \o Tail(r)
             ELSE << w[1] >> \o r

\* Within 25% of the nominal duration.
Near(d, nominal) == 4 * d >= 3 * nominal /\ 4 * d <= 5 * nominal

RECURSIVE BitsValue(_, _)
BitsValue(bits, k) ==
  IF k > Len(bits) THEN 0 ELSE bits[k] * 2 ^ (k - 1) + BitsValue(bits, k + 1)

\* A 2.4 ms header mark, then 12 marks of 1.2 ms (one) or 0.6 ms (zero), each
\* mark followed by a 0.6 ms space, the last space running into the quiet
\* gap; the first bit received is bit 0. -1 when the waveform is no frame.
SonyDecode(w) ==
  LET m == Merge(w)
      wellFormed ==
        /\ Len(m) = 26
        /\ m[1][1] /\ Near(m[1][2], 2400)
        /\ \A k \in 1 .. 12 :
             /\ ~m[2 * k][1]
             /\ m[2 * k + 1][1]
             /\ Near(m[2 * k + 1][2], 1200) \/ Near(m[2 * k + 1][2], 600)
             /\ Near(m[2 * k][2], 600)
        /\ ~m[26][1] /\ m[26][2] >= 6000
      bits == [k \in 1 .. 12 |-> IF Near(m[2 * k + 1][2], 1200) THEN 1 ELSE 0]
  IN  IF wellFormed THEN BitsValue(bits, 1) ELSE -1

\* C1: command resolution is exact-match. When transmit_code_for_buttons
\* returns, if its nonzero argument equals the pinmask of table entry k then
\* exactly one frame was transmitted and it carries entry k's code; if the
\* argument equals no entry's pinmask then no frame was transmitted. During
\* the call at most one frame is started.
C1_ExactMatch ==
  /\ Len(sent) <= 1
  /\ Returned =>
       /\ buttons # 0
       /\ \A k \in 1 .. NUM_COMMANDS :
            buttons = command_defs[k].pinmask =>
              /\ sent = << command_defs[k].code >>
              /\ SonyDecode(wave) = command_defs[k].code
       /\ (\A k \in 1 .. NUM_COMMANDS : buttons # command_defs[k].pinmask) =>
            /\ sent = <<>>
            /\ wave = <<>>

\* The input-select button (the last table entry) has produced its frame.
C1_Witness ==
  /\ Returned
  /\ path = "tx"
  /\ buttons = 16
  /\ sent = << 165 >>
  /\ SonyDecode(wave) = 165

\* C2: round trip. For every 12-bit code c, the waveform emitted by
\* transmit_sony_12bit_code(c) decodes with the reference receiver to c.
C2_RoundTrip == pc = "done" => SonyDecode(wave) = txcode

\* The alternating code 0xAAA has been transmitted and decoded.
C2_Witness == pc = "done" /\ txcode = 2730 /\ SonyDecode(wave) = 2730


\* One idle sleep of the debounce duration, carrier off, and nothing else.
OneDebounceSleep == [on |-> 0, off |-> 10 * 1000, n |-> 1]

\* C3 (as stated): a held mapped combination is transmitted exactly once:
\* no second frame is started while the input lines have not changed.
C3_OnePerPress == heldFrames <= 1

\* C3 (amended): every acceptance of a mapped combination as stable yields
\* exactly one call of transmit_sony_12bit_code, and no other branch of the
\* loop yields one: between two reads of the input lines at most one frame is
\* started, exactly one when the accepted mask is mapped, none otherwise.
\* (A combination that stays held is accepted again on every iteration, so
\* it is transmitted once per iteration.)
C3_OnePerAcceptance ==
  /\ Len(sent) <= 1
  /\ pc = "resample" => Len(sent) = (IF path = "tx" THEN 1 ELSE 0)
  /\ pc = "process" => sent = <<>>

\* The second frame of a combination held without any change of the lines.
C3_Witness ==
  /\ pc = "resample"
  /\ path = "tx"
  /\ heldFrames = 2
  /\ Len(sent) = 1

\* The main loop is about to act on the latest sample.
Accepted == pc = "process" /\ input = last_input

\* C4 (as stated): every accepted reading is the second of two identical
\* samples taken one debounce interval (one 10 ms idle sleep) apart.
C4_TwoSamples ==
  Accepted =>
    /\ path # "first"
    /\ prevSample = input
    /\ elapsed = OneDebounceSleep

\* C4 (amended): a reading is accepted only when it equals the baseline. For
\* the first reading after a wake the baseline is that reading itself: a
\* single sample, taken after the one 10 ms initial debounce sleep. For every
\* later reading the baseline is the previous sample, and the two samples are
\* bitwise identical and at least one debounce interval apart: exactly one
\* 10 ms idle sleep after an unstable or unmapped wait, a whole frame and its
\* 45 ms post-delay after a transmission.
C4_SettleAndConfirm ==
  Accepted =>
    \/ /\ path = "first"
       /\ elapsed = OneDebounceSleep
    \/ /\ path \in {"unstable", "unmapped"}
       /\ prevSample = input
       /\ elapsed = OneDebounceSleep
    \/ /\ path = "tx"
       /\ prevSample = input
       /\ elapsed.n = 27
       /\ elapsed.off = 13 * 600 + 45 * 1000
       /\ elapsed.on >= 2400 + 12 * 600

\* A reading accepted after an unstable wait, confirmed by the sample before.
C4_Witness ==
  /\ Accepted
  /\ path = "unstable"
  /\ prevSample = input
  /\ Pressed(input) # 0

\* C5: debounce stability. A newly read sample equal to the previous sample
\* is accepted in that iteration (the stable branch is taken); a sample that
\* differs from the previous one is not acted on: the unstable branch is the
\* only one taken, it makes the sample the baseline, performs one debounce
\* idle sleep with the carrier off and no transmission, and the lines are
\* read again.
C5_DebounceStability ==
  /\ (pc = "process" /\ path # "first") =>
       /\ last_input = prevSample
       /\ input = prevSample =>
            /\ (ENABLED StableReleased) \/ (ENABLED StablePressed)
            /\ ~ENABLED Unstable
       /\ input # prevSample =>
            /\ ~ENABLED StableReleased
            /\ ~ENABLED StablePressed
            /\ ENABLED Unstable
  /\ (path = "unstable" /\ pc \in {"idle", "resample"}) =>
       /\ last_input = input
       /\ input # prevSample
       /\ sent = <<>>
       /\ ~CarrierOn(hw)
       /\ pc = "idle" => (ret = "resample" /\ dur = 10 * 1000)
       /\ pc = "resample" => elapsed = OneDebounceSleep

\* A differing sample has become the baseline and the wait is over.
C5_Witness ==
  /\ pc = "resample"
  /\ path = "unstable"
  /\ input # prevSample
  /\ last_input = input
  /\ elapsed = OneDebounceSleep

\* The button state matches no table entry.
Unmapped(b) == \A k \in 1 .. NUM_COMMANDS : b # command_defs[k].pinmask

\* C6: unmapped combination. When the stable mask is nonzero and matches no
\* table entry, the carrier is never on, nothing is transmitted, exactly one
\* debounce-duration idle sleep is performed before the lines are read again,
\* and the baseline is unchanged.
C6_Unmapped ==
  (path \in {"tx", "unmapped"} /\ pc # "process" /\ Unmapped(buttons)) =>
    /\ buttons # 0
    /\ path = "unmapped"
    /\ pc \in {"idle", "resample"}
    /\ sent = <<>>
    /\ wave = <<>>
    /\ ~CarrierOn(hw)
    /\ last_input = input
    /\ buttons = Pressed(last_input)
    /\ pc = "idle" => (ret = "resample" /\ dur = 10 * 1000 /\ elapsed = NoElapsed)
    /\ pc = "resample" => elapsed = OneDebounceSleep

\* The unmapped chord 0b00000110 has been absorbed by one debounce sleep.
C6_Witness ==
  /\ pc = "resample"
  /\ path = "unmapped"
  /\ buttons = 6
  /\ elapsed = OneDebounceSleep
  /\ sent = <<>>


\* The data bits of a frame as the output line shows them, first bit first:
\* a 1200 us mark is a one, a 600 us mark a zero.
EmittedBits(w) ==
  [k \in 1 .. 12 |->
     CASE w[2 * k + 1] = <<TRUE, 1200>> -> 1
       [] w[2 * k + 1] = <<TRUE, 600>> -> 0
       [] OTHER -> -1]

\* C7 (as stated): pressing only the line with pinmask 0b00000010 transmits
\* code 149 with the data bits 1,0,1,0,1,0,0,1,0,1,0,0.
C7_PowerBitsAsStated ==
  (Returned /\ buttons = 2) =>
    /\ txcode = 149
    /\ Len(wave) = 27
    /\ EmittedBits(wave) = <<1, 0, 1, 0, 1, 0, 0, 1, 0, 1, 0, 0>>

\* C7 (amended): pressing only the line with pinmask 0b00000010 transmits
\* code 21 | (1<<7) = 149, and the 12 data bits are emitted LSB-first as
\* 1,0,1,0,1,0,0,1,0,0,0,0.
C7_PowerBits ==
  (Returned /\ buttons = 2) =>
    /\ txcode = 21 + 2 ^ 7
    /\ txcode = 149
    /\ sent = << 149 >>
    /\ Len(wave) = 27
    /\ EmittedBits(wave) = <<1, 0, 1, 0, 1, 0, 0, 1, 0, 0, 0, 0>>

\* The power frame is complete.
C7_Witness ==
  /\ Returned
  /\ buttons = 2
  /\ Pressed(input) = 2
  /\ Len(wave) = 27
  /\ txcode = 149

\* The codes of the frames started since the last read of the lines.
SentCodes == { sent[k] : k \in 1 .. Len(sent) }

\* C8: chords are matched by equality, not by subset. The stable mask
\* 0b00001100 transmits the mute code 148 and never 146 or 147; no stable
\* mask that strictly contains a table pinmask transmits that entry's code.
C8_ChordExact ==
  /\ buttons = 12 => SentCodes \subseteq {148}
  /\ (Returned /\ buttons = 12) => sent = << 148 >>
  /\ \A k \in 1 .. NUM_COMMANDS :
       (And(buttons, command_defs[k].pinmask) = command_defs[k].pinmask
          /\ buttons # command_defs[k].pinmask)
       => command_defs[k].code \notin SentCodes

\* Both volume buttons held: the mute frame, and only it, has been sent.
C8_Witness ==
  /\ Returned
  /\ buttons = 12
  /\ sent = << 148 >>
  /\ SonyDecode(wave) = 148

RECURSIVE PopCount(_)
PopCount(c) == IF c = 0 THEN 0 ELSE (c % 2) + PopCount(c \div 2)

\* Sum of the requested durations of the intervals of w at the given level.
RECURSIVE LevelTime(_, _)
LevelTime(w, level) ==
  IF w = <<>> THEN 0
  ELSE (IF w[1][1] = level THEN w[1][2] ELSE 0) + LevelTime(Tail(w), level)

\* C9: frame timing. A frame is 26 intervals followed by one 45 ms quiet
\* period; for code c the carrier-on durations sum to
\* 9600 + 600*popcount(c) us (9600 us for code 0) and the carrier-off
\* durations inside the frame, header gap included, sum to 7800 us.
C9_FrameTiming ==
  pc = "done" =>
    /\ Len(wave) = 27
    /\ wave[27] = <<FALSE, 45 * 1000>>
    /\ LevelTime(SubSeq(wave, 1, 26), TRUE) =
         (2400 + 12 * 600) + 600 * PopCount(txcode)
    /\ LevelTime(SubSeq(wave, 1, 26), FALSE) = 13 * 600
    /\ LevelTime(SubSeq(wave, 1, 26), FALSE) = 7800
    /\ txcode = 0 => LevelTime(wave, TRUE) = 9600
    /\ elapsed.on = LevelTime(wave, TRUE)
    /\ elapsed.off = LevelTime(wave, FALSE)

\* The frame of code 0 is complete.
C9_Witness ==
  /\ pc = "done"
  /\ txcode = 0
  /\ LevelTime(wave, TRUE) = 9600
  /\ LevelTime(wave, FALSE) = 7800 + 45000

\* C10: inter-frame gap. The post-delay of every frame is a 45 ms idle sleep
\* with the carrier gated off, the output line released and Timer0 powered
\* down; transmit_sony_12bit_code returns only after it; and every header
\* mark but the first starts after at least one complete post-delay of
\* carrier-off time since the last mark, held button or not. The carrier is
\* on only from the start of a mark to the gating-off that ends it.
C10_InterFrameGap ==
  /\ (pc = "idle" /\ path = "tx" /\ ret = retaddr) =>
       /\ dur = 45 * 1000
       /\ Len(wave) = 27
       /\ ~CarrierOn(hw)
       /\ hw.TCCR0A = {}
       /\ hw.DDRB = 0
       /\ hw.PRTIM0
  /\ (pc = "resample" /\ path = "tx") =>
       /\ Len(wave) = 27
       /\ wave[27] = <<FALSE, 45 * 1000>>
       /\ sinceMark >= 45 * 1000
  /\ pc = "tx_header_mark" => (sinceMark = -1 \/ sinceMark >= 45 * 1000)
  /\ CarrierOn(hw) =>
       /\ path = "tx"
       /\ Len(wave) \in 1 .. 25
       /\ \/ pc = "idle" /\ ret \in {"tx_header_space", "tx_bit_space"}
          \/ pc \in {"tx_header_space", "tx_bit_space"}

\* A held button is about to start its next frame, back to back.
C10_Witness ==
  /\ pc = "tx_header_mark"
  /\ heldFrames >= 1
  /\ sinceMark >= 45 * 1000


\* C11: main-loop sequencing. Deep sleep is re-entered only with the latest
\* sample equal to the baseline and its pressed mask empty; a resolve and
\* transmit is started, and runs to its return, only with the latest sample
\* equal to the baseline and its pressed mask non-empty, that mask being the
\* argument; every wake from deep sleep is followed by exactly one
\* debounce-interval idle sleep before the first sample is read.
C11_Sequencing ==
  /\ (pc \in {"power_down", "pwr_down"} /\ path = "released") =>
       /\ input = last_input
       /\ Pressed(input) = 0
  /\ (pc = "lookup" \/ (path \in {"pressed", "tx", "unmapped"} /\ pc # "process")) =>
       /\ input = last_input
       /\ Pressed(input) # 0
       /\ buttons = Pressed(input)
  /\ pc = "initial_debounce" => elapsed = NoElapsed
  /\ pc = "read_buttons" => elapsed = OneDebounceSleep
  /\ (pc = "process" /\ path = "first") => elapsed = OneDebounceSleep

\* Deep sleep has been re-entered after a press was served and released.
C11_Witness ==
  /\ pc = "pwr_down"
  /\ path = "released"
  /\ sinceMark >= 0
  /\ input = last_input
  /\ Pressed(input) = 0

\* C12: command-table invariants. The pinmasks of command_defs are pairwise
\* distinct and nonzero (and lie within the button mask), and every code
\* fits in 12 bits; accordingly a code handed to the transmitter is below
\* 2^12 and nothing of it is left after its 12 bits have been shifted out.
C12_TableInvariants ==
  /\ \A j, k \in 1 .. NUM_COMMANDS :
       j # k => command_defs[j].pinmask # command_defs[k].pinmask
  /\ \A k \in 1 .. NUM_COMMANDS :
       /\ command_defs[k].pinmask # 0
       /\ command_defs[k].pinmask \in 0 .. 255
       /\ And(command_defs[k].pinmask, PORTB_BUTTON_PIN_MASK)
            = command_defs[k].pinmask
       /\ command_defs[k].code \in 0 .. 4095
       /\ command_defs[k].code \div 4096 = 0
  /\ \A k \in 1 .. Len(sent) : sent[k] \in 0 .. 4095
  /\ (pc = "tx_loop" /\ i = 12) => code = 0

\* The last table entry's code has been shifted out completely.
C12_Witness ==
  /\ pc = "tx_loop"
  /\ i = 12
  /\ code = 0
  /\ txcode = command_defs[NUM_COMMANDS].code
  /\ buttons = command_defs[NUM_COMMANDS].pinmask


\* The thread is inside power_down_and_wait_for_pin_change or idle_sleep, at
\* the sleep instruction.
Asleep == pc \in {"pwr_down", "idle"}

\* C13: no terminal state. The control loop has no exit: every position is
\* one of the loop's; from every reachable state a step of the processor is
\* possible, except in deep sleep with no pin change pending, where it waits
\* for the input lines; every idle sleep ends (its timer interrupt is armed),
\* and every call of transmit_sony_12bit_code returns to its caller.
C13_NoTerminalState ==
  /\ [](pc \in {"power_down", "pwr_down", "initial_debounce", "idle",
                "read_buttons", "process", "lookup", "resample",
                "tx_header_mark", "tx_header_space", "tx_loop_init",
                "tx_loop", "tx_bit_space", "tx_bit_next"})
  /\ []((pc # "pwr_down" \/ hw.PCIF) => ENABLED CpuStep)
  /\ []((pc = "pwr_down" /\ ~hw.PCIF) => (~ENABLED CpuStep /\ ENABLED PinChange))
  /\ [](pc = "idle" => ENABLED TIMER1_COMPA)
  /\ (pc = "idle") ~> (pc # "idle")
  /\ (pc = "tx_header_mark") ~> (pc = "resample" /\ path = "tx" /\ Len(wave) = 27)

\* An idle sleep inside a frame is under way.
C13_Witness ==
  /\ pc = "idle"
  /\ path = "tx"
  /\ Len(wave) = 14
  /\ ENABLED TIMER1_COMPA


\* The registers while the main flow executes outside a sleep instruction:
\* both interrupt enables and the I flag clear, Timer1 stopped.
Disarmed ==
  /\ ~hw.I
  /\ hw.GIMSK = {}
  /\ hw.TIMSK = {}
  /\ hw.TCCR1 = {}

\* C14: interrupt re-arming order. Outside the two sleep instructions the
\* pin-change enable, the timer interrupt enable and the I flag are all
\* clear, so no handler can run there; a deep sleep is ended by one
\* pin-change handler run that leaves PCIE, the pending flag and I clear, an
\* idle sleep by one timer handler run that leaves OCIE1A and I clear; and
\* each enable is set again only by the step that enters the corresponding
\* sleep.
C14_RearmingOrder ==
  /\ [](~Asleep => Disarmed)
  /\ [](~Asleep => (~ENABLED PCINT0 /\ ~ENABLED TIMER1_COMPA))
  /\ [](pc = "pwr_down" => (hw.I /\ hw.GIMSK = {"PCIE"} /\ hw.TIMSK = {}))
  /\ [](pc = "idle" => (hw.I /\ hw.TIMSK = {"OCIE1A"} /\ hw.GIMSK = {}))
  /\ [][ /\ (pc = "pwr_down" /\ pc' # pc) =>
              (hw'.GIMSK = {} /\ ~hw'.I /\ ~hw'.PCIF /\ hw'.TIMSK = {})
         /\ (pc = "idle" /\ pc' # pc) =>
              (hw'.TIMSK = {} /\ ~hw'.I /\ hw'.GIMSK = {}
                 /\ elapsed'.n = elapsed.n + 1)
         /\ (hw'.GIMSK # hw.GIMSK /\ hw'.GIMSK # {}) =>
              (pc = "power_down" /\ pc' = "pwr_down")
         /\ (hw'.TIMSK # hw.TIMSK /\ hw'.TIMSK # {}) =>
              (~Asleep /\ pc' = "idle")
         /\ (hw'.I /\ ~hw.I) => (~Asleep /\ Asleep')
     ]_vars

\* The main flow has resumed from a deep sleep with everything disarmed.
C14_Witness ==
  /\ pc = "initial_debounce"
  /\ Disarmed
  /\ ~hw.PCIF

\* C15: no cancellation. During every idle sleep the pin-change interrupt is
\* disabled and only the Timer1 compare handler can end it: a change of the
\* input lines leaves the sleep and its requested duration as they are, and
\* the step that ends it is the timer's, which accounts the whole requested
\* duration. During every deep sleep the timer interrupt is disabled and
\* Timer1 is stopped and powered down, so only a pin change ends it.
C15_NoCancellation ==
  /\ [](pc = "idle" =>
          /\ hw.GIMSK = {}
          /\ ~ENABLED PCINT0
          /\ ENABLED TIMER1_COMPA)
  /\ [](pc = "pwr_down" =>
          /\ hw.TIMSK = {}
          /\ hw.TCCR1 = {}
          /\ hw.PRTIM1
          /\ ~ENABLED TIMER1_COMPA
          /\ (ENABLED PCINT0) <=> hw.PCIF)
  /\ [][ /\ (pc = "idle" /\ pinb' # pinb) =>
              (pc' = "idle" /\ dur' = dur /\ ret' = ret
                 /\ hw'.TIMSK = hw.TIMSK /\ hw'.OCR1A = hw.OCR1A
                 /\ elapsed' = elapsed)
         /\ (pc = "idle" /\ pc' # pc) =>
              (pinb' = pinb /\ pc' = ret
                 /\ elapsed'.on + elapsed'.off = elapsed.on + elapsed.off + dur)
         /\ (pc = "pwr_down" /\ pc' # pc) => (hw.PCIF /\ elapsed' = NoElapsed)
     ]_vars

\* The input lines have changed during the post-delay, which goes on.
C15_Witness ==
  /\ pc = "idle"
  /\ dur = 45 * 1000
  /\ heldFrames = 0
  /\ hw.PCIF
  /\ hw.GIMSK = {}

\* PB0 is configured as an output.
OutputDriven == And(hw.DDRB, PORTB_OUTPUT_PIN_MASK) # 0

\* C16: output quiescence. In deep sleep PB0 is an input with its latch
\* low and Timer0 is powered down. PB0 is an output only inside
\* transmit_sony_12bit_code, from the header mark to the end of the last
\* bit's space; in particular it is neither driven nor carrying the carrier
\* before the first frame after reset.
C16_OutputQuiescence ==
  /\ pc \in {"power_down", "pwr_down"} /\ path # "none" => ~OutputDriven
  /\ pc = "pwr_down" =>
       /\ ~OutputDriven
       /\ hw.DDRB = 0
       /\ And(hw.PORTB, PORTB_OUTPUT_PIN_MASK) = 0
       /\ hw.PRTIM0
       /\ ~CarrierOn(hw)
  /\ OutputDriven =>
       /\ path = "tx"
       /\ Len(wave) \in 1 .. 26
       /\ ~hw.PRTIM0
       /\ pc \in {"idle", "tx_header_space", "tx_loop_init", "tx_loop",
                  "tx_bit_space", "tx_bit_next"}
       /\ pc = "idle" => ret # retaddr
  /\ ~OutputDriven => ~CarrierOn(hw)
  /\ sinceMark = -1 /\ sent = <<>> => (~OutputDriven /\ hw.PRTIM0)

\* Deep sleep after a frame has been sent: the output is released.
C16_Witness ==
  /\ pc = "pwr_down"
  /\ sinceMark >= 0
  /\ hw.DDRB = 0
  /\ hw.PRTIM0

\* A button is down on the input lines.
ButtonHeld == Pressed(pinb) # 0

\* The device is in deep sleep while a button is down.
HeldInDeepSleep == pc = "pwr_down" /\ ButtonHeld

\* The device is in deep sleep with no wake-up pending.
QuietDeepSleep == pc = "pwr_down" /\ ~hw.PCIF

\* The monitored lines are all released, as the final sample of the
\* processing loop (if there has been one since reset) saw them.
NothingMissed ==
  /\ Pressed(pinb) = 0
  /\ path = "released" =>
       /\ Pressed(input) = 0
       /\ And(Xor(pinb, input), hw.PCMSK) = 0

\* C17: no lost wake-up. The pin-change flag latches a change of a
\* monitored line also while PCIE is clear, so the device is never in deep
\* sleep with a button held and no wake-up pending: the pin-change handler
\* is then enabled, and the program goes on to the initial debounce and
\* takes a first sample.
C17_NoLostWakeup ==
  /\ [](HeldInDeepSleep => (hw.PCIF /\ ENABLED PCINT0))
  /\ [](QuietDeepSleep => NothingMissed)
  /\ []((pc = "power_down" /\ ButtonHeld) => hw.PCIF)
  /\ HeldInDeepSleep ~> (pc = "process" /\ path = "first")

\* A button went down after the final empty sample and is held in deep
\* sleep with the wake-up pending.
C17_Witness ==
  /\ pc = "pwr_down"
  /\ path = "released"
  /\ Pressed(input) = 0
  /\ Pressed(pinb) # 0
  /\ hw.PCIF

\* The bits of the port byte outside the button mask.
NonButtonBits == {b \in {1, 2, 4, 8, 16, 32, 64, 128} :
                    And(b, PORTB_BUTTON_PIN_MASK) = 0}

\* C18: stability is judged on the whole port byte, the pressed mask on the
\* button bits only. A sample that differs from the baseline, be it in a
\* non-button bit only, takes the unstable branch (baseline replaced, one
\* debounce wait, nothing transmitted); a non-button bit changes neither the
\* pressed mask, nor whether it is empty, nor the command found for it (which
\* depends on no state, and is evaluated for every byte in the state after
\* reset, and for the current sample in every state).
C18_RawStability ==
  /\ (pc = "power_down" /\ path = "none") =>
       \A in \in 0 .. 255 : \A b \in NonButtonBits :
         /\ Pressed(Xor(in, b)) = Pressed(in)
         /\ FindCommand(Pressed(Xor(in, b))) = FindCommand(Pressed(in))
  /\ \A b \in NonButtonBits :
       /\ Pressed(Xor(input, b)) = Pressed(input)
       /\ (Pressed(Xor(input, b)) = 0) <=> (Pressed(input) = 0)
  /\ (pc = "process" /\ input # last_input) =>
       /\ ENABLED Unstable
       /\ ~ENABLED StablePressed
       /\ ~ENABLED StableReleased
  /\ (path = "unstable" /\ pc \in {"idle", "resample"}) =>
       /\ last_input = input
       /\ wave = <<>>
       /\ ~OutputDriven
       /\ pc = "idle" => (ret = "resample" /\ dur = DEBOUNCE_DURATION * 1000)
       /\ pc = "resample" => elapsed = OneDebounceSleep
  /\ pc = "lookup" => buttons = And(Pressed(input), PORTB_BUTTON_PIN_MASK)
  /\ pc = "tx_header_mark" =>
       /\ FindCommand(And(Not8(input), PORTB_BUTTON_PIN_MASK)) # 0
       /\ code = command_defs[FindCommand(And(Not8(And(input, PORTB_BUTTON_PIN_MASK)),
                                              PORTB_BUTTON_PIN_MASK))].code

\* The sample has the baseline's pressed mask and another non-button bit,
\* and the unstable branch has been taken.
C18_Witness ==
  /\ path = "unstable"
  /\ pc = "resample"
  /\ Pressed(input) = Pressed(prevSample)
  /\ Pressed(input) # 0
  /\ input # prevSample
  /\ last_input = input

\* The tick counts as quotients of unbounded integers.
WideTicksUs(us) == ((F_CPU \div 1000) * us) \div (16 * 1000)
WideTicksMs(ms) == ((F_CPU \div 1000) * ms) \div 4096

\* C19: tick range. Every delay the program requests gives a tick count
\* between 1 and 255 whose 32-bit product does not wrap (a thousandth of it
\* is at most 4294967, a thousandth of 2^32 - 1), so the 8-bit ticks
\* argument of idle_sleep is the whole quotient and is never zero; OCR1A
\* holds that count during every idle sleep.
C19_TickRange ==
  /\ \A us \in {HEADER_BIT_DURATION, ONE_BIT_ON_DURATION, ZERO_BIT_ON_DURATION,
                BIT_OFF_DURATION} :
       /\ (F_CPU \div 1000) * us <= 4294967
       /\ WideTicksUs(us) \in 1 .. 255
       /\ TicksUs(us) = WideTicksUs(us)
  /\ \A ms \in {POST_DELAY_DURATION, DEBOUNCE_DURATION} :
       /\ (F_CPU \div 1000) * ms <= 4294967
       /\ WideTicksMs(ms) \in 1 .. 255
       /\ TicksMs(ms) = WideTicksMs(ms)
  /\ pc = "idle" =>
       /\ hw.OCR1A \in 1 .. 255
       /\ hw.TCCR1 = {"CS12", "CS10"} =>
            (/\ dur \in {HEADER_BIT_DURATION, ONE_BIT_ON_DURATION,
                         ZERO_BIT_ON_DURATION, BIT_OFF_DURATION}
             /\ hw.OCR1A = WideTicksUs(dur))
       /\ hw.TCCR1 = {"CS13", "CS12", "CS10"} =>
            (/\ dur \div 1000 \in {POST_DELAY_DURATION, DEBOUNCE_DURATION}
             /\ hw.OCR1A = WideTicksMs(dur \div 1000))
       /\ hw.TCCR1 \in {{"CS12", "CS10"}, {"CS13", "CS12", "CS10"}}

\* The post-delay is counted with ten ticks of the 1/4096 prescaler.
C19_Witness ==
  /\ pc = "idle"
  /\ dur = POST_DELAY_DURATION * 1000
  /\ hw.TCCR1 = {"CS13", "CS12", "CS10"}
  /\ hw.OCR1A = WideTicksMs(POST_DELAY_DURATION)
  /\ hw.OCR1A >= 1

\* All buttons are released on the input lines.
AllReleased == Pressed(pinb) = 0

\* The buttons held on the input lines are a combination of command_defs.
MappedHeld == FindCommand(Pressed(pinb)) # 0

\* A frame carrying the code of the held combination has been sent whole.
FrameOfHeldCode ==
  /\ MappedHeld
  /\ pc = "resample"
  /\ path = "tx"
  /\ Len(wave) = 2 * NUM_BITS + 3
  /\ sent = << command_defs[FindCommand(Pressed(pinb))].code >>
  /\ SonyDecode(wave) = command_defs[FindCommand(Pressed(pinb))].code

\* The first sample after the last change reads the lines as they are; the
\* second finds them equal to its baseline.
SettlesInTwoSamples ==
  /\ (pc = "process" /\ heldSamples >= 1) => input = pinb
  /\ (pc = "process" /\ heldSamples >= 2) => last_input = input
  /\ (pc = "process" /\ heldSamples >= 2 /\ AllReleased) =>
       ENABLED StableReleased
  /\ (pc = "process" /\ heldSamples >= 1 /\ AllReleased) =>
       ~ENABLED StablePressed

\* The port bytes with one combination of command_defs held and PB5, the
\* reset line, at its level of rest.
HeldMappedValues == {Raw(command_defs[k].pinmask, 32) : k \in 1 .. NUM_COMMANDS}

\* C20: liveness of the loop. If from some point on the input lines stay
\* constant with all buttons released, the program ends up in deep sleep for
\* good, so transmits nothing further; the way there is at most what was in
\* progress, one unstable debounce wait and one confirming sample. If they
\* stay constant with a mapped combination held, a whole frame carrying its
\* code is sent again and again.
C20_LoopLiveness ==
  /\ []SettlesInTwoSamples
  /\ \A v \in {r \in RawValues : Pressed(r) = 0} :
       <>[](pinb = v) => <>[](pc = "pwr_down")
  /\ \A v \in HeldMappedValues :
       <>[](pinb = v) => []<>FrameOfHeldCode

\* Deep sleep with no wake-up pending, reached after a transmission and
\* the samples that followed the release.
C20_Witness ==
  /\ pc = "pwr_down"
  /\ path = "released"
  /\ sinceMark >= 0
  /\ heldSamples >= 2
  /\ AllReleased
  /\ ~hw.PCIF

=============================================================================
